---- MODULE Spec2Model ----
(***************************************************************************)
(* Deep Q-learning on Cart-Pole: the Memory replay buffer, the             *)
(* pre-population loop and the training loop of Q-learning-cart.ipynb.     *)
(*                                                                         *)
(* Two specifications:                                                     *)
(*   SpecMemory  the Memory class driven by arbitrary add / sample calls   *)
(*   Spec        the notebook's pre-population cell followed by the        *)
(*               training cell                                             *)
(***************************************************************************)
EXTENDS Integers, Sequences, FiniteSets, TLC

VARIABLES
    memory_size,      \* Memory(max_size=memory_size): the deque's maxlen
    batch_size,       \* mini-batch size; pretrain_length = batch_size
    train_episodes,   \* upper limit of range(1, train_episodes)
    max_steps,        \* limit of the inner while loop
    pc,               \* position in the notebook / last call of the harness
    error,            \* "none", or the exception that ended the call / the run
    buffer,           \* memory.buffer, oldest first
    doneLog,          \* history: for each stored transition, the done flag of its step
    added,            \* history: every experience passed to add, in call order
    arg_batch_size,   \* parameter batch_size of the last Memory.sample call
    idx,              \* idx of the last Memory.sample call (0-based positions)
    batch,            \* list returned by the last Memory.sample call
    state,            \* state
    action,           \* action
    next_state,       \* next_state
    reward,           \* reward
    done,             \* done
    env_steps,        \* environment: env.step calls since the last env.reset (capped)
    ep,               \* loop variable ep (0: not bound yet)
    t,                \* t
    step,             \* step
    total_reward,     \* total_reward
    rewards_list,     \* rewards_list
    loss,             \* loss ("undefined" until the first assignment)
    theta,            \* parameters of mainQN
    targets,          \* targets handed to the optimiser, times GammaDen
    ii,               \* loop variable ii of the pre-population loop
    checkpoints,      \* number of saver.save calls made
    explore_p,        \* floor(explore_p * ExploreScale) (0: not bound yet)
    u,                \* the last np.random.rand() draw, times ExploreScale
    ep_actions,       \* history: selected actions submitted in the current episode
    ep_done,          \* history: the environment reported done in the current episode
    ops               \* history: the operations of the current training step, in order

vars == <<memory_size, batch_size, train_episodes, max_steps, pc, error,
          buffer, doneLog, added, arg_batch_size, idx, batch,
          state, action, next_state, reward, done, env_steps,
          ep, t, step, total_reward, rewards_list, loss, theta, targets,
          ii, checkpoints, explore_p, u, ep_actions, ep_done, ops>>

configVars == <<memory_size, batch_size, train_episodes, max_steps>>
memoryVars == <<buffer, doneLog, added, arg_batch_size, idx, batch>>
envVars    == <<state, action, next_state, reward, done, env_steps>>
stepVars   == <<explore_p, u, ep_actions, ep_done>>
loopVars   == <<ep, t, step, total_reward, rewards_list, loss, theta, targets,
                ii, checkpoints, stepVars, ops>>

(***************************************************************************)
(* Bounds of the model                                                     *)
(***************************************************************************)
MaxCapacity == 3        \* harness: max_size ranges over 0..MaxCapacity
MaxAdds == 5            \* harness: number of add calls
MaxSampleArg == 4       \* harness: sample(k) for k in 0..MaxSampleArg
MaxMemorySize == 2      \* notebook: memory_size ranges over 1..MaxMemorySize
MaxBatchSize == 2       \* notebook: batch_size ranges over 1..MaxBatchSize
MaxTrainEpisodes == 3   \* notebook: train_episodes ranges over 1..MaxTrainEpisodes
MaxMaxSteps == 2        \* notebook: max_steps ranges over 1..MaxMaxSteps
EnvStepsCap == 2        \* env_steps counts up to this value

(***************************************************************************)
(* Values                                                                  *)
(***************************************************************************)
StateDim == 2           \* length of an observation vector
Zeros(n) == [i \in 1..n |-> 0]
Tilted == [i \in 1..StateDim |-> IF i = 1 THEN 1 ELSE 0]
\* what env.step can return as observation: the all-zero vector and another one
Observations == {Zeros(StateDim), Tilted}
\* env.action_space: left, right
Actions == {0, 1}
\* Cart-Pole pays 1.0 for every frame
Rewards == {1}
NoBatch == <<>>

Experience(s, a, r, ns) == <<s, a, r, ns>>

\* the experiences the harness passes to add
HarnessExperiences ==
    {Experience(Tilted, 0, 1, Tilted), Experience(Tilted, 1, 1, Zeros(StateDim))}

(***************************************************************************)
(* collections.deque(maxlen=max_size).append                               *)
(***************************************************************************)
DequeAppendNoEvict(buf, maxlen, x) == Append(buf, x)

DequeAppendDropNewest(buf, maxlen, x) ==
    IF Len(buf) < maxlen THEN Append(buf, x) ELSE buf

DequeAppend(buf, maxlen, x) ==
    IF maxlen = 0 THEN <<>>
    ELSE IF Len(buf) < maxlen THEN Append(buf, x)
    ELSE Append(Tail(buf), x)

(***************************************************************************)
(* np.random.choice(np.arange(n), size=k, replace=False): the possible     *)
(* results, as sequences of 0-based positions, and the calls that raise    *)
(* ValueError.  The notebook pins no numpy release: every release raises   *)
(* when k > n; on an empty population with k = 0 the releases before 1.16  *)
(* raise ("a must be non-empty") and the later ones return an empty array, *)
(* so that call has both outcomes.                                         *)
(***************************************************************************)
ChoiceRaises(n, k) == k > n \/ n = 0

ChoiceClipped(n, k) ==
    LET m == IF k > n THEN n ELSE k
    IN {f \in [1..m -> 0..(n - 1)] : \A i, j \in 1..m : i # j => f[i] # f[j]}

Choice(n, k) ==
    IF k > n THEN {}
    ELSE {f \in [1..k -> 0..(n - 1)] : \A i, j \in 1..k : i # j => f[i] # f[j]}

\* [self.buffer[ii] for ii in idx]
Gather(buf, ix) == [i \in 1..Len(ix) |-> buf[ix[i] + 1]]

(***************************************************************************)
(* class Memory                                                            *)
(***************************************************************************)
\* an add that stores the experience twice
MemoryAddTwice(experience) ==
    buffer' = DequeAppend(DequeAppend(buffer, memory_size, experience),
                          memory_size, experience)

\* Memory.add(experience)
MemoryAdd(experience) ==
    buffer' = DequeAppend(buffer, memory_size, experience)

\* a sample that removes what it returns
MemorySampleConsuming(k) ==
    /\ arg_batch_size' = k
    /\ \/ /\ ChoiceRaises(Len(buffer), k)
          /\ error' = "ValueError"
          /\ idx' = <<>>
          /\ batch' = NoBatch
          /\ buffer' = buffer
       \/ \E ix \in Choice(Len(buffer), k) :
                /\ error' = "none"
                /\ idx' = ix
                /\ batch' = Gather(buffer, ix)
                /\ buffer' = SelectSeq([i \in 1..Len(buffer) |->
                                           IF \E j \in 1..k : ix[j] + 1 = i
                                           THEN <<>> ELSE buffer[i]],
                                       LAMBDA e : e # <<>>)

\* Memory.sample(batch_size)
MemorySample(k) ==
    /\ arg_batch_size' = k
    /\ buffer' = buffer
    /\ \/ /\ ChoiceRaises(Len(buffer), k)
          /\ error' = "ValueError"
          /\ idx' = <<>>
          /\ batch' = NoBatch
       \/ \E ix \in Choice(Len(buffer), k) :
                /\ error' = "none"
                /\ idx' = ix
                /\ batch' = Gather(buffer, ix)

(***************************************************************************)
(* SpecMemory: a Memory(max_size) object under arbitrary calls             *)
(***************************************************************************)
InitMemory ==
    /\ memory_size \in 0..MaxCapacity
    /\ batch_size = 0
    /\ train_episodes = 0
    /\ max_steps = 0
    /\ pc = "new"
    /\ error = "none"
    /\ buffer = <<>>
    /\ doneLog = <<>>
    /\ added = <<>>
    /\ arg_batch_size = 0
    /\ idx = <<>>
    /\ batch = NoBatch
    /\ state = Zeros(StateDim)
    /\ action = 0
    /\ next_state = Zeros(StateDim)
    /\ reward = 0
    /\ done = FALSE
    /\ env_steps = 0
    /\ ep = 0
    /\ t = 0
    /\ step = 0
    /\ total_reward = 0
    /\ rewards_list = <<>>
    /\ loss = "undefined"
    /\ theta = 0
    /\ targets = <<>>
    /\ ii = 0
    /\ checkpoints = 0
    /\ explore_p = 0
    /\ u = 0
    /\ ep_actions = 0
    /\ ep_done = FALSE
    /\ ops = <<>>

HarnessPc == {"new", "called_add", "called_sample"}

CallAdd ==
    /\ pc \in HarnessPc
    /\ Len(added) < MaxAdds
    /\ \E e \in HarnessExperiences :
          /\ MemoryAdd(e)
          /\ added' = Append(added, e)
    /\ pc' = "called_add"
    /\ error' = "none"
    /\ UNCHANGED <<configVars, doneLog, arg_batch_size, idx, batch, envVars, loopVars>>

CallSample ==
    /\ pc \in HarnessPc
    /\ \E k \in 0..MaxSampleArg : MemorySample(k)
    /\ pc' = "called_sample"
    /\ UNCHANGED <<configVars, doneLog, added, envVars, loopVars>>

NextMemory == CallAdd \/ CallSample

SpecMemory == InitMemory /\ [][NextMemory]_vars

\* the last n elements of a sequence
LastN(s, n) == IF Len(s) <= n THEN s ELSE SubSeq(s, Len(s) - n + 1, Len(s))

\* C1: a Memory created with max_size = C never stores more than C
\* transitions, whatever add calls were made.
C1_SizeAtMostCapacity == Len(buffer) <= memory_size

C1_Witness ==
    /\ pc = "called_add"
    /\ Len(added) > memory_size
    /\ memory_size >= 1
    /\ Len(buffer) = memory_size

\* C2: once more than C items were added the buffer holds exactly the last
\* C added items in insertion order (and before that, everything added).
C2_LastCInOrder == buffer = LastN(added, memory_size)

C2_Witness ==
    /\ memory_size = 3
    /\ Len(added) = 5
    /\ buffer = SubSeq(added, 3, 5)
    /\ added[1] # added[2]

\* C3: (as claimed) for every buffer state, sample(k) with k <= size returns
\* exactly k transitions taken from k pairwise distinct positions of the
\* buffer; for k = size the positions are a permutation of all positions.
C3_SampleValid ==
    (pc = "called_sample" /\ arg_batch_size <= Len(buffer)) =>
        /\ error = "none"
        /\ Len(batch) = arg_batch_size
        /\ Len(idx) = arg_batch_size
        /\ \A i \in 1..Len(idx) : idx[i] \in 0..(Len(buffer) - 1)
        /\ \A i, j \in 1..Len(idx) : i # j => idx[i] # idx[j]
        /\ \A i \in 1..Len(idx) : batch[i] = buffer[idx[i] + 1]
        /\ (arg_batch_size = Len(buffer)) =>
               {idx[i] : i \in 1..Len(idx)} = 0..(Len(buffer) - 1)

\* C4: sample(k) with k greater than the number of stored transitions fails
\* with an error, returns no batch and leaves the buffer as it was.
C4_SampleTooManyFails ==
    [][(pc' = "called_sample" /\ arg_batch_size' > Len(buffer)) =>
          (error' = "ValueError" /\ batch' = NoBatch /\ buffer' = buffer)]_vars

C4_Witness ==
    /\ pc = "called_sample"
    /\ arg_batch_size = 4
    /\ Len(buffer) = 3
    /\ Len(added) = 5
    /\ error = "ValueError"

\* C5: sample never changes the buffer (contents, order, size); every change
\* of the buffer is made by add.
C5_SampleDoesNotMutate ==
    [][/\ (pc' = "called_sample" => buffer' = buffer)
       /\ (buffer' # buffer => pc' = "called_add")]_vars

C5_Witness ==
    /\ pc = "called_sample"
    /\ error = "none"
    /\ arg_batch_size >= 1
    /\ Len(buffer) = 2
    /\ buffer[1] # buffer[2]

(***************************************************************************)
(* The environment: env.step returns (observation, reward, done); the      *)
(* simulator is a collaborator, so any observation, reward and done flag   *)
(* may come back.                                                          *)
(***************************************************************************)
EnvOutputs == Observations \X Rewards \X BOOLEAN

CountStep(n) == IF n < EnvStepsCap THEN n + 1 ELSE n

(***************************************************************************)
(* mainQN: the network's output for one state under parameters theta, a    *)
(* vector of one value per action.                                         *)
(***************************************************************************)
Weights == {0, 1}

QOutput(th, s) == <<th + s[1], 1 + s[2]>>

\* np.max over one row
MaxQ(row) == IF row[1] >= row[2] THEN row[1] ELSE row[2]

\* an argmax that returns the last index of the maximum
ArgMaxLast(row) == IF row[2] >= row[1] THEN 1 ELSE 0

\* np.argmax over one row: the first index (0-based) of the maximum
ArgMax(row) == IF row[1] >= row[2] THEN 0 ELSE 1

(***************************************************************************)
(* Hyperparameters                                                         *)
(***************************************************************************)
GammaNum == 99
GammaDen == 100
pretrain_length == batch_size

(***************************************************************************)
(* Exploration schedule.  A probability p is stored as the integer         *)
(* floor(p * ExploreScale).  np.exp is evaluated on fixed-point numbers of *)
(* FixLen limbs in base ExploreScale, <<i, f1, f2, f3, f4>> standing for   *)
(* i + f1/10^4 + f2/10^8 + f3/10^12 + f4/10^16, so that the comparison of  *)
(* explore_p with the draw is made on the value and not on its floor.      *)
(* The stored floor equals that of the float expression of line 542 for    *)
(* every step up to 600000, and the comparison with a draw that is a       *)
(* multiple of 1/ExploreScale has the float comparison's outcome for every *)
(* step up to 344062 (the hyperparameters of lines 328-329 allow 199800    *)
(* steps); past it the sixteen decimals no longer tell explore_p from      *)
(* explore_stop.                                                           *)
(***************************************************************************)
ExploreScale == 10000
explore_start == 10000       \* 1.0
explore_stop == 100          \* 0.01
FixLen == 5
FixOne == <<1, 0, 0, 0, 0>>
FixZero == <<0, 0, 0, 0, 0>>

\* a probability (times ExploreScale) as a fixed-point number
ToFix(p) == <<p \div ExploreScale, p % ExploreScale, 0, 0, 0>>

\* the sum of the limb products a_i * b_(k-i), limbs counted from 0
RECURSIVE ConvSum(_, _, _, _)
ConvSum(a, b, k, i) ==
    IF i >= FixLen THEN 0
    ELSE (IF k - i >= 0 /\ k - i < FixLen THEN a[i + 1] * b[k - i + 1] ELSE 0)
         + ConvSum(a, b, k, i + 1)

\* the carry that the limbs below limb k send into it
RECURSIVE CarryInto(_, _, _)
CarryInto(a, b, k) ==
    IF k >= 2 * (FixLen - 1) THEN 0
    ELSE (ConvSum(a, b, k + 1, 0) + CarryInto(a, b, k + 1)) \div ExploreScale

\* limb k of the product of two fixed-point numbers, before its own carry
\* leaves it; the product, truncated to FixLen limbs
MulLimb(a, b, k) == ConvSum(a, b, k, 0) + CarryInto(a, b, k)

MulFix(a, b) ==
    <<MulLimb(a, b, 0),
      MulLimb(a, b, 1) % ExploreScale,
      MulLimb(a, b, 2) % ExploreScale,
      MulLimb(a, b, 3) % ExploreScale,
      MulLimb(a, b, 4) % ExploreScale>>

\* np.exp(-decay_rate * 2^(k-1)) for decay_rate = 0.0001, k = 1..19
ExpPow2 ==
    << <<0, 9999, 0, 4999, 8333>>,
       <<0, 9998, 1, 9998, 6667>>,
       <<0, 9996, 7, 9989, 3343>>,
       <<0, 9992, 31, 9914, 6837>>,
       <<0, 9984, 127, 9317, 6063>>,
       <<0, 9968, 511, 4543, 329>>,
       <<0, 9936, 2043, 6379, 1490>>,
       <<0, 9872, 8157, 1590, 2905>>,
       <<0, 9747, 2490, 1601, 7939>>,
       <<0, 9500, 8863, 3802, 6268>>,
       <<0, 9026, 6841, 2080, 9420>>,
       <<0, 8148, 1026, 2168, 7294>>,
       <<0, 6639, 1576, 3335, 4735>>,
       <<0, 4407, 8414, 805, 3245>>,
       <<0, 1942, 9065, 8785, 4881>>,
       <<0, 377, 4886, 91, 2989>>,
       <<0, 14, 2497, 6438, 1924>>,
       <<0, 0, 203, 557, 8494>>,
       <<0, 0, 0, 4, 1231>> >>

\* np.exp(-decay_rate*n) as the product of the table entries of n's binary
\* digits, the digit of weight 2^(k-1) first
RECURSIVE ExpBits(_, _)
ExpBits(n, k) ==
    IF n = 0 THEN FixOne
    ELSE IF k > Len(ExpPow2) THEN FixZero
    ELSE IF n % 2 = 1 THEN MulFix(ExpPow2[k], ExpBits(n \div 2, k + 1))
    ELSE ExpBits(n \div 2, k + 1)

\* an exponent with the wrong sign: 2 - exp(-decay_rate*n), which grows as
\* exp(+decay_rate*n) does
ExpNegGrowing(n) ==
    LET e == ExpBits(n, 1)
    IN IF e[1] = 1 THEN e
       ELSE <<1, ExploreScale - 1 - e[2], ExploreScale - 1 - e[3],
              ExploreScale - 1 - e[4], ExploreScale - 1 - e[5]>>

\* np.exp(-decay_rate*step)
ExpNeg(n) == ExpBits(n, 1)

\* (explore_start - explore_stop)*np.exp(-decay_rate*step)
ExploreDecayOf(st) == MulFix(ToFix(explore_start - explore_stop), ExpNeg(st))

\* the values of step that a run within the bounds can reach, and the
\* schedule at each of them, evaluated once
ScheduleSteps == 0..(MaxTrainEpisodes * MaxMaxSteps)
ExploreDecayAt == [st \in ScheduleSteps |-> ExploreDecayOf(st)]

ExploreDecay(st) ==
    IF st \in ScheduleSteps THEN ExploreDecayAt[st] ELSE ExploreDecayOf(st)

\* explore_stop + (explore_start - explore_stop)*np.exp(-decay_rate*step)
ExploreP(st) ==
    explore_stop + ExploreDecay(st)[1] * ExploreScale + ExploreDecay(st)[2]

\* explore_p > np.random.rand(), for the explore_p of step st and a draw
\* that is a multiple of 1/ExploreScale
ExploreExceeds(st, draw) ==
    \/ ExploreP(st) > draw
    \/ /\ ExploreP(st) = draw
       /\ \E k \in 3..FixLen : ExploreDecay(st)[k] # 0

\* np.random.rand(): a value of [0, 1); the smallest and the largest one
Draws == {0, ExploreScale - 1}

(***************************************************************************)
(* Pre-population cell                                                     *)
(***************************************************************************)
Init ==
    /\ memory_size \in 1..MaxMemorySize
    /\ batch_size \in 1..MaxBatchSize
    /\ train_episodes \in 1..MaxTrainEpisodes
    /\ max_steps \in 1..MaxMaxSteps
    /\ pc = "populate_init"
    /\ error = "none"
    /\ buffer = <<>>
    /\ doneLog = <<>>
    /\ added = <<>>
    /\ arg_batch_size = 0
    /\ idx = <<>>
    /\ batch = NoBatch
    /\ state = Zeros(StateDim)
    /\ action = 0
    /\ next_state = Zeros(StateDim)
    /\ reward = 0
    /\ done = FALSE
    /\ env_steps = 0
    /\ ep = 0
    /\ t = 0
    /\ step = 0
    /\ total_reward = 0
    /\ rewards_list = <<>>
    /\ loss = "undefined"
    /\ theta = 0
    /\ targets = <<>>
    /\ ii = 0
    /\ checkpoints = 0
    /\ explore_p = 0
    /\ u = 0
    /\ ep_actions = 0
    /\ ep_done = FALSE
    /\ ops = <<>>

\* env.reset(); state, reward, done, _ = env.step(random); memory = Memory(...)
PopulateInit ==
    /\ pc = "populate_init"
    /\ \E out \in EnvOutputs :
          /\ state' = out[1]
          /\ reward' = out[2]
          /\ done' = out[3]
    /\ env_steps' = 1
    /\ buffer' = <<>>
    /\ doneLog' = <<>>
    /\ ii' = 0
    /\ pc' = "populate"
    /\ UNCHANGED <<configVars, error, added, arg_batch_size, idx, batch, action,
                   next_state, ep, t, step, total_reward, rewards_list, loss,
                   theta, targets, checkpoints, stepVars, ops>>

\* next_state stored by the pre-population loop: the raw one
PopulateNextStateRaw(d, ns, s) == ns

\* next_state stored by the pre-population loop
PopulateNextState(d, ns, s) == IF d THEN Zeros(Len(s)) ELSE ns

\* one iteration of: for ii in range(pretrain_length)
PopulateStep ==
    /\ pc = "populate"
    /\ ii < pretrain_length
    /\ \E a \in Actions, out \in EnvOutputs :
          /\ action' = a
          /\ next_state' = PopulateNextState(out[3], out[1], state)
          /\ MemoryAdd(Experience(state, a, out[2],
                                  PopulateNextState(out[3], out[1], state)))
          /\ doneLog' = DequeAppend(doneLog, memory_size, out[3])
          /\ IF out[3]
             THEN \E first \in EnvOutputs :
                     /\ state' = first[1]
                     /\ reward' = first[2]
                     /\ done' = first[3]
                     /\ env_steps' = 1
             ELSE /\ state' = out[1]
                  /\ reward' = out[2]
                  /\ done' = out[3]
                  /\ env_steps' = CountStep(env_steps)
    /\ ii' = ii + 1
    /\ UNCHANGED <<configVars, pc, error, added, arg_batch_size, idx, batch,
                   ep, t, step, total_reward, rewards_list, loss, theta, targets,
                   checkpoints, stepVars, ops>>

\* the pre-population loop is exhausted; the training cell starts:
\* rewards_list = [], global_variables_initializer, step = 0
TrainInit ==
    /\ pc = "populate"
    /\ ii >= pretrain_length
    /\ rewards_list' = <<>>
    /\ theta' \in Weights
    /\ step' = 0
    /\ pc' = "for_ep"
    /\ UNCHANGED <<configVars, error, memoryVars, envVars, ep, t, total_reward,
                   loss, targets, ii, checkpoints, stepVars, ops>>

(***************************************************************************)
(* Training cell                                                           *)
(***************************************************************************)
\* for ep in range(1, train_episodes): total_reward = 0; t = 0
ForEpisode ==
    /\ pc = "for_ep"
    /\ ep + 1 < train_episodes
    /\ ep' = ep + 1
    /\ total_reward' = 0
    /\ t' = 0
    /\ ep_actions' = 0
    /\ ep_done' = FALSE
    /\ pc' = "while"
    /\ UNCHANGED <<configVars, error, memoryVars, envVars, step, rewards_list,
                   loss, theta, targets, ii, checkpoints, explore_p, u, ops>>

\* range(1, train_episodes) is exhausted
ForEpisodeExit ==
    /\ pc = "for_ep"
    /\ ~(ep + 1 < train_episodes)
    /\ pc' = "save"
    /\ UNCHANGED <<configVars, error, memoryVars, envVars, loopVars>>

\* while t < max_steps: step += 1; explore_p = ...; explore or exploit
SelectAction ==
    /\ pc = "while"
    /\ t < max_steps
    /\ step' = step + 1
    /\ explore_p' = ExploreP(step + 1)
    /\ \E draw \in Draws :
          /\ u' = draw
          /\ IF ExploreExceeds(step + 1, draw)
             THEN action' \in Actions
             ELSE action' = ArgMax(QOutput(theta, state))
    /\ ops' = <<"select">>
    /\ pc' = "env_step"
    /\ UNCHANGED <<configVars, error, memoryVars, state, next_state, reward, done,
                   env_steps, ep, t, total_reward, rewards_list, loss, theta,
                   targets, ii, checkpoints, ep_actions, ep_done>>

\* the while loop ends
WhileExit ==
    /\ pc = "while"
    /\ ~(t < max_steps)
    /\ pc' = "for_ep"
    /\ UNCHANGED <<configVars, error, memoryVars, envVars, loopVars>>

\* next_state, reward, done, _ = env.step(action); total_reward += reward
StepEnv ==
    /\ pc = "env_step"
    /\ \E out \in EnvOutputs :
          /\ next_state' = out[1]
          /\ reward' = out[2]
          /\ done' = out[3]
          /\ total_reward' = total_reward + out[2]
          /\ ep_done' = (ep_done \/ out[3])
    /\ ep_actions' = ep_actions + 1
    /\ ops' = Append(ops, "env_step")
    /\ env_steps' = CountStep(env_steps)
    /\ pc' = "record"
    /\ UNCHANGED <<configVars, error, memoryVars, state, action, ep, t, step,
                   rewards_list, loss, theta, targets, ii, checkpoints, explore_p, u>>

\* next_state stored by the training loop: the raw one
TrainNextStateRaw(d, ns, s) == ns

\* next_state stored by the training loop
TrainNextState(d, ns, s) == IF d THEN Zeros(Len(s)) ELSE ns

\* if done: ... else: ...
Record ==
    /\ pc = "record"
    /\ next_state' = TrainNextState(done, next_state, state)
    /\ IF done
       THEN /\ t' = max_steps
            /\ IF loss = "undefined"
               THEN \* the print formats loss, which is not bound
                    /\ error' = "NameError"
                    /\ pc' = "error"
                    /\ UNCHANGED <<rewards_list, buffer, doneLog, state, reward,
                                   done, env_steps, ops>>
               ELSE /\ rewards_list' = Append(rewards_list, <<ep, total_reward>>)
                    /\ MemoryAdd(Experience(state, action, reward,
                                            TrainNextState(done, next_state, state)))
                    /\ doneLog' = DequeAppend(doneLog, memory_size, done)
                    /\ \E first \in EnvOutputs :
                          /\ state' = first[1]
                          /\ reward' = first[2]
                          /\ done' = first[3]
                    /\ env_steps' = 1
                    /\ ops' = Append(ops, "append")
                    /\ pc' = "sample"
                    /\ error' = error
       ELSE /\ MemoryAdd(Experience(state, action, reward,
                                    TrainNextState(done, next_state, state)))
            /\ doneLog' = DequeAppend(doneLog, memory_size, done)
            /\ state' = next_state
            /\ t' = t + 1
            /\ ops' = Append(ops, "append")
            /\ pc' = "sample"
            /\ UNCHANGED <<rewards_list, reward, done, env_steps, error>>
    /\ UNCHANGED <<configVars, added, arg_batch_size, idx, batch, action, ep, step,
                   total_reward, loss, theta, targets, ii, checkpoints, stepVars>>

\* batch = memory.sample(batch_size)
Sample ==
    /\ pc = "sample"
    /\ MemorySample(batch_size)
    /\ ops' = Append(ops, "sample")
    /\ pc' = IF error' = "ValueError" THEN "error" ELSE "targets"
    /\ UNCHANGED <<configVars, doneLog, added, envVars, ep, t, step, total_reward,
                   rewards_list, loss, theta, targets, ii, checkpoints, stepVars>>

\* episode_ends = (next_states == np.zeros(states[0].shape)).all(axis=1)
EpisodeEnds(nexts, shape) ==
    [i \in 1..Len(nexts) |-> \A j \in 1..shape : nexts[i][j] = Zeros(shape)[j]]

\* target_Qs = sess.run(output, next_states); target_Qs[episode_ends] = (0, 0)
MaskedQs(th, nexts, shape) ==
    LET target_Qs == [i \in 1..Len(nexts) |-> QOutput(th, nexts[i])]
        episode_ends == EpisodeEnds(nexts, shape)
    IN [i \in 1..Len(nexts) |-> IF episode_ends[i] THEN <<0, 0>> ELSE target_Qs[i]]

\* targets = rewards + gamma * np.max(target_Qs, axis=1), times GammaDen
TargetsOf(th, b) ==
    LET states == [i \in 1..Len(b) |-> b[i][1]]
        rewards == [i \in 1..Len(b) |-> b[i][3]]
        next_states == [i \in 1..Len(b) |-> b[i][4]]
        target_Qs == MaskedQs(th, next_states, Len(states[1]))
    IN [i \in 1..Len(b) |-> GammaDen * rewards[i] + GammaNum * MaxQ(target_Qs[i])]

\* states, actions, rewards, next_states, target_Qs, episode_ends, targets
ComputeTargets ==
    /\ pc = "targets"
    /\ targets' = TargetsOf(theta, batch)
    /\ pc' = "train"
    /\ UNCHANGED <<configVars, error, memoryVars, envVars, ep, t, step, total_reward,
                   rewards_list, loss, theta, ii, checkpoints, stepVars, ops>>

\* loss, _ = sess.run([mainQN.loss, mainQN.opt], ...)
TrainNetwork ==
    /\ pc = "train"
    /\ loss' = "defined"
    /\ theta' \in Weights
    /\ ops' = Append(ops, "update")
    /\ pc' = "while"
    /\ UNCHANGED <<configVars, error, memoryVars, envVars, ep, t, step, total_reward,
                   rewards_list, targets, ii, checkpoints, stepVars>>

\* saver.save(sess, "checkpoints/cartpole.ckpt")
Save ==
    /\ pc = "save"
    /\ checkpoints' = checkpoints + 1
    /\ pc' = "saved"
    /\ UNCHANGED <<configVars, error, memoryVars, envVars, ep, t, step, total_reward,
                   rewards_list, loss, theta, targets, ii, stepVars, ops>>

Next ==
    \/ PopulateInit
    \/ PopulateStep
    \/ TrainInit
    \/ ForEpisode
    \/ ForEpisodeExit
    \/ SelectAction
    \/ WhileExit
    \/ StepEnv
    \/ Record
    \/ Sample
    \/ ComputeTargets
    \/ TrainNetwork
    \/ Save

Spec == Init /\ [][Next]_vars

\* C6: (as claimed) whenever the training loop is about to call
\* memory.sample(batch_size) the buffer holds at least batch_size
\* transitions, for every configured capacity and batch size.
C6_SampleOnlyWhenEnough == (pc = "sample") => Len(buffer) >= batch_size

\* C7: every transition stored for a step on which the environment reported
\* done has the all-zero vector as next_state, in both loops.
C7_DoneStoresSentinel ==
    /\ Len(doneLog) = Len(buffer)
    /\ \A i \in 1..Len(buffer) : doneLog[i] => buffer[i][4] = Zeros(StateDim)

C7_Witness ==
    /\ pc = "sample"
    /\ ep = 2
    /\ Len(buffer) = 2
    /\ doneLog = <<TRUE, TRUE>>
    /\ rewards_list # <<>>

\* C8: (as claimed) the target of each sampled transition is its reward when
\* the transition is terminal (it was recorded for a step on which the
\* environment reported done) and reward + gamma * max_a Q(next_state, a)
\* when it is not (all times GammaDen).
C8_TargetValue ==
    (pc = "train") =>
        /\ Len(targets) = Len(batch)
        /\ \A i \in 1..Len(batch) :
              targets[i] =
                  IF doneLog[idx[i] + 1]
                  THEN GammaDen * batch[i][3]
                  ELSE GammaDen * batch[i][3]
                       + GammaNum * MaxQ(QOutput(theta, batch[i][4]))

\* C9: (as claimed) the training loop runs the episodes 1..train_episodes,
\* so when it has finished the last episode index is train_episodes.
C9_RunsAllEpisodes == (pc \in {"save", "saved"}) => ep = train_episodes

\* C10: (as claimed) when the first selected action of an episode is about to
\* be submitted, the environment was reset and has taken exactly one (random)
\* step since.
C10_EpisodeBeginsWithReset == (pc = "env_step" /\ t = 0) => env_steps = 1

\* C11: (as claimed) every episode that has ended, by done or by t reaching
\* max_steps, has appended exactly one (episode, total_reward) pair: between
\* episodes rewards_list holds one entry per episode run, in episode order.
C11_OneLogEntryPerEpisode ==
    (pc = "for_ep") =>
        /\ Len(rewards_list) = ep
        /\ \A i \in 1..Len(rewards_list) : rewards_list[i][1] = i

\* C12: the exploration probability used by successive training steps never
\* increases over the whole run, the step counter never decreases (it is not
\* reset between episodes), explore_p always lies between explore_stop and
\* explore_start, and it is the schedule's value at the current step.
C12_ExploreSchedule ==
    /\ [](step >= 1 =>
            /\ explore_stop <= explore_p
            /\ explore_p <= explore_start
            /\ explore_p = ExploreP(step))
    /\ [][/\ step' >= step
          /\ (step >= 1 => explore_p' <= explore_p)]_vars

C12_Witness ==
    /\ pc = "env_step"
    /\ ep = 2
    /\ step >= 3
    /\ explore_p < ExploreP(1)
    /\ explore_p > explore_stop

\* C13: the action of a training step comes from one draw u: a member of the
\* action set when u < explore_p (the step's exploration probability, as a
\* value and not as its stored floor), otherwise an action of maximal
\* predicted value for the current state, the lowest such index when several
\* tie.
C13_ActionChoice ==
    (pc = "env_step") =>
        IF ExploreExceeds(step, u)
        THEN action \in Actions
        ELSE LET Qs == QOutput(theta, state)
             IN /\ action \in Actions
                /\ \A a \in Actions : Qs[a + 1] <= Qs[action + 1]
                /\ \A a \in Actions : a < action => Qs[a + 1] < Qs[action + 1]

C13_Witness ==
    /\ pc = "env_step"
    /\ ~ExploreExceeds(step, u)
    /\ QOutput(theta, state)[1] = QOutput(theta, state)[2]
    /\ action = 0

\* the run is over: the checkpoint was written, or an exception ended the cell
Stopped == pc \in {"saved", "error"}

\* C14: (as claimed) an episode submits at most max_steps selected actions
\* and none after the environment reported done in it, and a run that has
\* stopped has saved the checkpoint, exactly once.
C14_BoundedThenSaved ==
    /\ ep_actions <= max_steps
    /\ (pc = "env_step" => ~ep_done)
    /\ (Stopped => (pc = "saved" /\ checkpoints = 1))

\* the operations of one training step, in the order of the loop body
StepOrder == <<"select", "env_step", "append", "sample", "update">>

IsPrefix(s, full) == Len(s) <= Len(full) /\ s = SubSeq(full, 1, Len(s))

TrainingPcs == {"while", "env_step", "record", "sample", "targets", "train"}

\* C15: within a training step the operations happen in the order select,
\* step the environment, append, sample, update; the append stores exactly
\* the one transition of the current step, before the sample, and no other
\* operation of the step changes the buffer.
C15_StepOrder ==
    /\ [](IsPrefix(ops, StepOrder))
    /\ [][/\ (pc = "record" /\ pc' = "sample") =>
                buffer' = DequeAppend(buffer, memory_size,
                                      Experience(state, action, reward, next_state'))
          /\ (pc \in TrainingPcs \ {"record"}) => buffer' = buffer]_vars

C15_Witness ==
    /\ pc = "targets"
    /\ ep = 2
    /\ ops = SubSeq(StepOrder, 1, 4)
    /\ Len(buffer) = 2
    /\ buffer[1] # buffer[2]
    /\ buffer[2][2] = action

\* C16: (as claimed) the end-of-episode report, which formats loss, runs only
\* after an update has assigned loss, so the run never stops on an unbound
\* loss.
C16_LossBoundBeforeReport ==
    /\ (pc = "record" /\ done) => loss = "defined"
    /\ error # "NameError"

\* C17: (as claimed) a sampled transition is treated as terminal by the
\* target computation exactly when it was recorded for a step on which the
\* environment reported done.
C17_TerminalIffDone ==
    (pc = "train") =>
        \A i \in 1..Len(batch) :
            EpisodeEnds([k \in 1..Len(batch) |-> batch[k][4]], StateDim)[i]
                <=> doneLog[idx[i] + 1]

====
